---- MODULE Spec2Model ----
(***************************************************************************)
(* A model of two ossutil command handlers:                                *)
(*   lcb            (lib/lcb.go)         paginated listing with retry      *)
(*   appendfromfile (lib/append_file.go) append a local file to an object  *)
(* One process runs one command.  Every service call, every local check    *)
(* and every loop head of RunCommand is one action; the service and the    *)
(* file system answer nondeterministically where the code reads an error.  *)
(***************************************************************************)
EXTENDS Integers, Sequences, FiniteSets, TLC

VARIABLES
    cmd,        \* the command this process runs: "lcb" or "appendfromfile";
                \* "progress" for the listener of one AppendObject call
    pc,         \* position in RunCommand
    args,       \* command.args
    options,    \* command.options: a function from the option names given
    err,        \* the error RunCommand returned ("nil" for nil), when pc = "done"
    raised,     \* history: the errors the steps of this invocation produced
    \* ---- lcb ----
    pages,      \* service: the listing, a sequence of page sizes
    limitedNum, \* lcb.go:116
    num,        \* lcb.go:122  rows printed
    pre,        \* lcb.go:131  oss.Prefix of the next request
    marker,     \* lcb.go:132  oss.Marker of the next request
    i,          \* lcb.go:159  attempt number inside ossListCloudBoxesRetry
    lcr,        \* lcb.go:134  the page returned by the last successful attempt
    reqs,       \* history: the ListCloudBoxes requests issued
    out,        \* history: the lines printed ("header" / "row")
    \* ---- appendfromfile ----
    remote,     \* service: the object, [exists, len, meta]
    remote0,    \* history: the object when this invocation started
    file,       \* file system: the local file, [kind, size]
    afOption,   \* append_file.go:107  appendFileOptionType
    isExist,    \* append_file.go:204
    position,   \* append_file.go:213
    fileOpen,   \* append_file.go:233  the handle of AppendFromFile is open
    runs,       \* invocations of appendfromfile so far
    calls,      \* history: the client, file and service operations requested,
                \* [op, ok, pos, meta]; pos is the position of an append request
                \* and the Content-Length read by a get-metadata request
    past,       \* history: the invocations that returned, [err, len] with the
                \* length of the object when the invocation started
    writes,     \* service: appends of another writer so far
    interfered, \* history: another writer acted after this invocation read
                \* the position and before it returned
    \* ---- AppendProgressListener ----
    lastMs,     \* append_file.go:79
    lastSize,   \* append_file.go:80
    currSize,   \* append_file.go:81
    clock,      \* time.Now() in milliseconds
    events,     \* history: the events delivered, [type, bytes, ms]
    status      \* history: the status lines printed, [type, bytes, ms]

lcbVars == <<pages, limitedNum, num, pre, marker, i, lcr, reqs, out>>
afVars == <<remote, remote0, file, afOption, isExist, position, fileOpen, runs>>
raceVars == <<writes, interfered>>
plVars == <<lastMs, lastSize, currSize, clock, events, status>>
vars == <<cmd, pc, args, options, err, raised, calls, lcbVars, afVars, past, raceVars, plVars>>

-----------------------------------------------------------------------------
(* Bounds of the model *)
MaxPages == 2       \* pages in a listing
MaxPageSize == 2    \* cloud boxes in one page
MaxLimit == 3       \* largest --limited-num
MaxRetry == 2       \* largest --retry-times
MaxRemoteLen == 2   \* length of the object before the first invocation
MaxRuns == 2        \* invocations of appendfromfile in a row
MaxEvents == 3      \* progress events delivered to one listener
MaxWrites == 1      \* appends of another writer
MaxWriteLen == 1    \* bytes of one append of another writer

Min(a, b) == IF a < b THEN a ELSE b
Max(a, b) == IF a > b THEN a ELSE b

RECURSIVE Sum(_)
Sum(s) == IF s = <<>> THEN 0 ELSE Head(s) + Sum(Tail(s))

-----------------------------------------------------------------------------
(* Strings are sequences of one-character strings, URLs sequences of tokens *)

OptionLimitedNum == "limitedNum"
OptionMarker == "marker"
OptionRetryTimes == "retryTimes"
OptionMeta == "meta"
OptionEncodingType == "encodingType"
URLEncodingType == <<"u", "r", "l">>

\* the largest file appendfromfile accepts (scaled down)
MaxAppendObjectSize == 2

\* GetInt / GetString: the value of an option, or the zero value and an error
\* when the option was not given.
GetInt(name, opts) ==
    IF name \in DOMAIN opts THEN [val |-> opts[name], err |-> "nil"]
    ELSE [val |-> 0, err |-> "option not found"]

GetString(name, opts) ==
    IF name \in DOMAIN opts THEN [val |-> opts[name], err |-> "nil"]
    ELSE [val |-> <<>>, err |-> "option not found"]

\* CloudURLFromString: "oss://" bucket ["/" object]
CloudURLFromString(u) ==
    IF u = <<>> \/ Head(u) # "oss://"
    THEN [err |-> "invalid cloud url", bucket |-> "", object |-> <<>>]
    ELSE [err |-> "nil",
          bucket |-> IF Len(u) >= 2 THEN u[2] ELSE "",
          object |-> IF Len(u) >= 4 /\ u[3] = "/" THEN u[4] ELSE <<>>]

HexDigits == {"4", "b"}
HexPair(a, b) == IF a = "4" /\ b = "b" THEN "K" ELSE "?"

\* url.QueryUnescape: "%" must be followed by two hex digits
RECURSIVE QueryUnescape(_)
QueryUnescape(s) ==
    IF s = <<>> THEN [err |-> "nil", val |-> <<>>]
    ELSE IF Head(s) = "%"
         THEN IF Len(s) >= 3 /\ s[2] \in HexDigits /\ s[3] \in HexDigits
              THEN LET r == QueryUnescape(SubSeq(s, 4, Len(s)))
                   IN  [err |-> r.err,
                        val |-> IF r.err = "nil"
                                THEN <<HexPair(s[2], s[3])>> \o r.val ELSE <<>>]
              ELSE [err |-> "invalid URL escape", val |-> <<>>]
         ELSE LET r == QueryUnescape(Tail(s))
              IN  [err |-> r.err,
                   val |-> IF r.err = "nil" THEN <<Head(s)>> \o r.val ELSE <<>>]

\* command.getRawMarker
getRawMarker(str) == QueryUnescape(str)

\* GetCloudUrl: a cloud url, its object name decoded under --encoding-type url
GetCloudUrl(u, encodingType) ==
    LET c == CloudURLFromString(u)
        d == QueryUnescape(c.object)
    IN  IF c.err # "nil" \/ encodingType # URLEncodingType THEN c
        ELSE IF d.err # "nil" THEN [err |-> d.err, bucket |-> "", object |-> <<>>]
        ELSE [c EXCEPT !.object = d.val]

\* command.parseHeaders: "name:value"
parseHeaders(str) ==
    IF Len(str) = 3 /\ str[2] = ":"
    THEN [err |-> "nil", name |-> str[1], value |-> str[3]]
    ELSE [err |-> "invalid header", name |-> "", value |-> ""]

\* command.getOSSOptions: the headers that can be set on an object
getOSSOptions(metas) ==
    IF metas.name \in {"X-Oss-Meta-Author"} THEN "nil" ELSE "unsupported header"

Digits == <<"0", "1", "2", "3", "4", "5", "6", "7", "8", "9">>

\* the decimal text of n >= 0, as the service writes Content-Length
RECURSIVE FormatInt(_)
FormatInt(n) ==
    IF n < 10 THEN <<Digits[n + 1]>>
    ELSE FormatInt(n \div 10) \o <<Digits[(n % 10) + 1]>>

DigitValue(c) == (CHOOSE k \in 1..10 : Digits[k] = c) - 1

\* strconv.ParseInt(s, 10, 64) of an unsigned text
RECURSIVE ParseDigits(_, _)
ParseDigits(s, acc) ==
    IF s = <<>> THEN [err |-> "nil", val |-> acc]
    ELSE IF \E k \in 1..10 : Digits[k] = Head(s)
         THEN ParseDigits(Tail(s), acc * 10 + DigitValue(Head(s)))
         ELSE [err |-> "invalid syntax", val |-> 0]

ParseInt(s) ==
    IF s = <<>> THEN [err |-> "invalid syntax", val |-> 0] ELSE ParseDigits(s, 0)

-----------------------------------------------------------------------------
(* The service's listing *)

PageTag == <<"1", "2", "3", "4", "5">>

\* the NextMarker the service returns with page k
NextMarkerOf(k) == <<"n", PageTag[k]>>

\* the page a request with marker m asks for
PageOf(m) ==
    IF \E k \in 1..Len(PageTag) : m = NextMarkerOf(k)
    THEN 1 + CHOOSE k \in 1..Len(PageTag) : m = NextMarkerOf(k)
    ELSE 1

\* client.ListCloudBoxes answering: page PageOf(m) of the listing
ListCloudBoxResult(p, m) ==
    LET k == PageOf(m)
    IN  [Prefix |-> p,
         NextMarker |-> IF k < Len(pages) THEN NextMarkerOf(k) ELSE <<>>,
         IsTruncated |-> k < Len(pages),
         CloudBoxes |-> IF k <= Len(pages) THEN pages[k] ELSE 0]

NoResult == [Prefix |-> "", NextMarker |-> <<>>, IsTruncated |-> FALSE, CloudBoxes |-> 0]

-----------------------------------------------------------------------------
(* Inputs *)

LcbArgs == { <<>>, << <<"oss://", "b1">> >>, << <<"b1">> >> }
Markers == { <<"k">>, <<"%", "4", "b">>, <<"%", "z">> }

Listings == UNION { [1..n -> 0..MaxPageSize] : n \in 1..MaxPages }

AfUrls == { <<"oss://", "b1", "/", <<"o">> >>, <<"oss://", "b1">>, <<"b1">> }
AfArgs == { <<"f", u>> : u \in AfUrls }
Metas == { <<"X-Oss-Meta-Author", ":", "chanju">>, <<"X-Oss-Meta-Author">>,
           <<"Bogus", ":", "v">> }

NoObject == [exists |-> FALSE, len |-> 0, meta |-> FALSE]
Objects ==
    {NoObject} \cup
    { [exists |-> TRUE, len |-> n, meta |-> m] : n \in 0..MaxRemoteLen, m \in BOOLEAN }

Files ==
    { [kind |-> "missing", size |-> 0], [kind |-> "dir", size |-> 0] } \cup
    { [kind |-> "file", size |-> n] : n \in 0..(MaxAppendObjectSize + 1) }

NoOption ==
    [bucketName |-> "", objectName |-> <<>>, encodingType |-> <<>>,
     fileName |-> "", fileSize |-> 0, ossMeta |-> <<>>]

\* an option is given with one of vals, or not given
OptionPart(name, vals) == { [x \in {} |-> 0] } \cup { name :> v : v \in vals }

LcbOptions ==
    { l @@ m @@ r : l \in OptionPart(OptionLimitedNum, (-1)..MaxLimit),
                    m \in OptionPart(OptionMarker, Markers),
                    r \in OptionPart(OptionRetryTimes, (-1)..MaxRetry) }

AfOptions ==
    { e @@ m : e \in OptionPart(OptionEncodingType, {URLEncodingType}),
               m \in OptionPart(OptionMeta, Metas) }

\* history of the errors produced: the error, and the attempt it ended (lcb.go:159)
Raise(e, n) == Append(raised, [err |-> e, i |-> n])

\* history of the operations requested
Call(op, ok, pos, meta) == Append(calls, [op |-> op, ok |-> ok, pos |-> pos, meta |-> meta])

-----------------------------------------------------------------------------
\* the state of a process before RunCommand
Fresh ==
    /\ pc = "start"
    /\ err = "nil"
    /\ raised = <<>>
    /\ calls = <<>>
    /\ limitedNum = 0
    /\ num = 0
    /\ pre = ""
    /\ marker = <<>>
    /\ i = 0
    /\ lcr = NoResult
    /\ reqs = <<>>
    /\ out = <<>>
    /\ afOption = NoOption
    /\ isExist = FALSE
    /\ position = 0
    /\ fileOpen = FALSE
    /\ runs = 1
    /\ remote0 = remote
    /\ past = <<>>
    /\ writes = 0
    /\ interfered = FALSE
    /\ lastMs = 0
    /\ lastSize = 0
    /\ currSize = 0
    /\ clock = 1
    /\ events = <<>>
    /\ status = <<>>

LcbInit ==
    /\ cmd = "lcb"
    /\ args \in LcbArgs
    /\ options \in LcbOptions
    /\ pages \in Listings
    /\ remote = NoObject
    /\ file = [kind |-> "missing", size |-> 0]
    /\ Fresh

AfInit ==
    /\ cmd = "appendfromfile"
    /\ args \in AfArgs
    /\ options \in AfOptions
    /\ pages = <<0>>
    /\ remote \in Objects
    /\ file \in Files
    /\ Fresh

Return(e) == pc' = "done" /\ err' = e

\* the errors among es that are not nil, as history
Raised(es) ==
    LET keep == SelectSeq(es, LAMBDA e : e # "nil")
    IN  [k \in 1..Len(keep) |-> [err |-> keep[k], i |-> 0]]

\* lcb.go:107-114  the prefix is the bucket of the first argument
LcbParseArgs ==
    /\ cmd = "lcb" /\ pc = "start"
    /\ IF Len(args) > 0
       THEN LET cloudURL == CloudURLFromString(args[1])
            IN  IF cloudURL.err # "nil"
                THEN /\ Return(cloudURL.err)
                     /\ raised' = Raise(cloudURL.err, 0)
                     /\ pre' = pre
                ELSE /\ pc' = "options"
                     /\ pre' = cloudURL.bucket
                     /\ UNCHANGED <<err, raised>>
       ELSE /\ pc' = "options"
            /\ UNCHANGED <<err, raised, pre>>
    /\ UNCHANGED <<cmd, args, options, calls, pages, limitedNum, num, marker, i, lcr, reqs, out, afVars>>
    /\ UNCHANGED <<past, raceVars, plVars>>

\* faulty variant of MarkerError: the error of getRawMarker is not looked at
MarkerErrorIgnored(raw) == FALSE

\* lcb.go:118  if vmarker, err := getRawMarker(vmarker); err != nil
MarkerError(raw) == raw.err # "nil"

\* lcb.go:116-120  the option lookups drop their errors; the decoded marker is
\* a variable of the if statement only, the marker kept is the one looked up
LcbReadOptions ==
    /\ cmd = "lcb" /\ pc = "options"
    /\ LET lim == GetInt(OptionLimitedNum, options)
           vm == GetString(OptionMarker, options)
           raw == getRawMarker(vm.val)
       IN  /\ limitedNum' = lim.val
           /\ marker' = vm.val
           /\ raised' = raised \o Raised(<<lim.err, vm.err, raw.err>>)
           /\ IF MarkerError(raw)
              THEN Return("invalid marker")
              ELSE pc' = "client" /\ err' = err
    /\ UNCHANGED <<cmd, args, options, calls, pages, num, pre, i, lcr, reqs, out, afVars>>
    /\ UNCHANGED <<past, raceVars, plVars>>

\* faulty variant of ClientFailed: the error of ossClient is not looked at
ClientFailedIgnored(ok) == FALSE

\* lcb.go:126  if err != nil
ClientFailed(ok) == ~ok

\* lcb.go:122-128  num = 0; client, err := ossClient("")
LcbClient ==
    /\ cmd = "lcb" /\ pc = "client"
    /\ num' = 0
    /\ \E ok \in BOOLEAN :
         /\ calls' = Call("client", ok, 0, FALSE)
         /\ raised' = IF ok THEN raised ELSE Raise("client error", 0)
         /\ IF ClientFailed(ok) THEN Return("client error")
            ELSE pc' = "loop" /\ err' = err
    /\ UNCHANGED <<cmd, args, options, pages, limitedNum, pre, marker, i, lcr, reqs, out, afVars>>
    /\ UNCHANGED <<past, raceVars, plVars>>

\* faulty variant of LoopCond: one more page is asked for at the limit
LoopCondInclusive == limitedNum < 0 \/ num <= limitedNum

\* lcb.go:133  for limitedNum < 0 || num < limitedNum
LoopCond == limitedNum < 0 \/ num < limitedNum

\* lcb.go:158  retryTimes, _ := GetInt(OptionRetryTimes, ...)
retryTimes == GetInt(OptionRetryTimes, options)

\* lcb.go:133-134, 154, 157-159  the loop head: call ossListCloudBoxesRetry or return nil
LcbLoop ==
    /\ cmd = "lcb" /\ pc = "loop"
    /\ IF LoopCond
       THEN /\ pc' = "list"
            /\ i' = 1
            /\ raised' = raised \o Raised(<<retryTimes.err>>)
            /\ err' = err
       ELSE Return("nil") /\ UNCHANGED <<i, raised>>
    /\ UNCHANGED <<cmd, args, options, calls, pages, limitedNum, num, pre, marker, lcr, reqs, out, afVars>>
    /\ UNCHANGED <<past, raceVars, plVars>>

\* faulty variant of RetryReturns: one attempt too many
RetryReturnsLate(ok, n) == ok \/ n > retryTimes.val

\* faulty variant of RetryReturns: a success does not end the attempts
RetryReturnsOnlyAtEnd(ok, n) == n >= retryTimes.val

\* lcb.go:161  if err == nil || int64(i) >= retryTimes { return lbr, err }
RetryReturns(ok, n) == ok \/ n >= retryTimes.val

\* faulty variant of AttemptOptions: a retry is sent with the cursor of the
\* failed attempt's (empty) result
AttemptOptionsFromResult(n) ==
    IF n > 1 THEN [prefix |-> NoResult.Prefix, marker |-> NoResult.NextMarker]
    ELSE [prefix |-> pre, marker |-> marker]

\* lcb.go:157, 160  the options of every attempt are those of the call
AttemptOptions(n) == [prefix |-> pre, marker |-> marker]


\* lcb.go:160-163, 134-137  one attempt of client.ListCloudBoxes(pre, marker)
ListAttempt ==
    /\ cmd = "lcb" /\ pc = "list"
    /\ \E ok \in BOOLEAN :
         /\ reqs' = Append(reqs, [prefix |-> AttemptOptions(i).prefix,
                                  marker |-> AttemptOptions(i).marker,
                                  ok |-> ok, i |-> i,
                                  page |-> PageOf(AttemptOptions(i).marker),
                                  result |-> IF ok
                                             THEN ListCloudBoxResult(AttemptOptions(i).prefix,
                                                                     AttemptOptions(i).marker)
                                             ELSE NoResult])
         /\ raised' = IF ok THEN raised ELSE Raise("list error", i)
         /\ IF RetryReturns(ok, i)
            THEN IF ok
                 THEN pc' = "page" /\ lcr' = reqs'[Len(reqs')].result
                      /\ UNCHANGED <<err, i>>
                 ELSE Return("list error") /\ UNCHANGED <<lcr, i>>
            ELSE i' = i + 1 /\ UNCHANGED <<pc, err, lcr>>
    /\ UNCHANGED <<cmd, args, options, calls, pages, limitedNum, num, pre, marker, out, afVars>>
    /\ UNCHANGED <<past, raceVars, plVars>>

\* faulty variant of PrintBoxes: the limit is tested after the row is printed
RECURSIVE PrintBoxesLate(_, _)
PrintBoxesLate(n, k) ==
    IF k = 0 THEN n
    ELSE IF limitedNum >= 0 /\ n > limitedNum THEN n
    ELSE PrintBoxesLate(n + 1, k - 1)

\* lcb.go:143-149  rows printed for a page of k boxes, starting from n rows
RECURSIVE PrintBoxes(_, _)
PrintBoxes(n, k) ==
    IF k = 0 THEN n
    ELSE IF limitedNum >= 0 /\ n >= limitedNum THEN n
    ELSE PrintBoxes(n + 1, k - 1)

\* faulty variant of NextCursor: the marker of the request is kept
NextCursorStale(r) == [prefix |-> r.Prefix, marker |-> marker]

\* lcb.go:138-139  pre = oss.Prefix(lcr.Prefix); marker = oss.Marker(lcr.NextMarker)
NextCursor(r) == [prefix |-> r.Prefix, marker |-> r.NextMarker]

\* faulty variant of PrintsHeader: the row counter is not looked at
PrintsHeaderEveryPage(n, k) == k > 0

\* lcb.go:140  if num == 0 && len(lcr.CloudBoxes) > 0
PrintsHeader(n, k) == n = 0 /\ k > 0

\* faulty variant of LastPage: the truncation flag is not looked at
LastPageNever(r) == FALSE

\* lcb.go:150  if !lcr.IsTruncated { break }
LastPage(r) == ~r.IsTruncated

\* lcb.go:138-152  advance the cursor, print the page, leave on the last page
LcbPage ==
    /\ cmd = "lcb" /\ pc = "page"
    /\ pre' = NextCursor(lcr).prefix
    /\ marker' = NextCursor(lcr).marker
    /\ num' = PrintBoxes(num, lcr.CloudBoxes)
    /\ out' = out \o (IF PrintsHeader(num, lcr.CloudBoxes) THEN <<"header">> ELSE <<>>)
                  \o [k \in 1..(num' - num) |-> "row"]
    /\ IF LastPage(lcr) THEN Return("nil") ELSE pc' = "loop" /\ err' = err
    /\ UNCHANGED <<cmd, args, options, raised, calls, pages, limitedNum, i, lcr, reqs, afVars>>
    /\ UNCHANGED <<past, raceVars, plVars>>

LcbNext == LcbParseArgs \/ LcbReadOptions \/ LcbClient \/ LcbLoop \/ ListAttempt \/ LcbPage

-----------------------------------------------------------------------------
(* appendfromfile *)

\* append_file.go:160-173  options, the cloud url, the object key
AfParseArgs ==
    /\ cmd = "appendfromfile" /\ pc = "start"
    /\ LET enc == GetString(OptionEncodingType, options)
           meta == GetString(OptionMeta, options)
           url == GetCloudUrl(args[2], enc.val)
           o1 == [afOption EXCEPT !.encodingType = enc.val, !.ossMeta = meta.val]
       IN  IF url.err # "nil"
           THEN /\ Return(url.err)
                /\ raised' = raised \o Raised(<<enc.err, meta.err, url.err>>)
                /\ afOption' = o1
           ELSE IF url.object = <<>>
           THEN /\ Return("object key is empty")
                /\ raised' = raised \o Raised(<<enc.err, meta.err, "object key is empty">>)
                /\ afOption' = o1
           ELSE /\ pc' = "stat"
                /\ err' = err
                /\ raised' = raised \o Raised(<<enc.err, meta.err>>)
                /\ afOption' = [o1 EXCEPT !.bucketName = url.bucket,
                                          !.objectName = url.object]
    /\ UNCHANGED <<cmd, args, options, calls, lcbVars,
                   remote, remote0, file, isExist, position, fileOpen, runs>>
    /\ UNCHANGED <<past, raceVars, plVars>>

\* faulty variant of TooBig: a file of the largest size is refused
TooBigInclusive(size) == size >= MaxAppendObjectSize

\* append_file.go:186  if stat.Size() > MaxAppendObjectSize
TooBig(size) == size > MaxAppendObjectSize

\* append_file.go:176-191  check input file
AfStat ==
    /\ cmd = "appendfromfile" /\ pc = "stat"
    /\ calls' = Call("stat", file.kind # "missing", 0, FALSE)
    /\ IF file.kind = "missing"
       THEN Return("stat error") /\ raised' = Raise("stat error", 0) /\ afOption' = afOption
       ELSE IF file.kind = "dir"
       THEN Return("is dir") /\ raised' = Raise("is dir", 0) /\ afOption' = afOption
       ELSE IF TooBig(file.size)
       THEN Return("is bigger than") /\ raised' = Raise("is bigger than", 0)
            /\ afOption' = afOption
       ELSE /\ pc' = "client"
            /\ afOption' = [afOption EXCEPT !.fileName = args[1], !.fileSize = file.size]
            /\ UNCHANGED <<err, raised>>
    /\ UNCHANGED <<cmd, args, options, lcbVars,
                   remote, remote0, file, isExist, position, fileOpen, runs>>
    /\ UNCHANGED <<past, raceVars, plVars>>

\* append_file.go:194-197  client, err := ossClient(bucketName)
AfClient ==
    /\ cmd = "appendfromfile" /\ pc = "client"
    /\ \E ok \in BOOLEAN :
         /\ calls' = Call("client", ok, 0, FALSE)
         /\ IF ok THEN pc' = "bucket" /\ UNCHANGED <<err, raised>>
            ELSE Return("client error") /\ raised' = Raise("client error", 0)
    /\ UNCHANGED <<cmd, args, options, lcbVars, afVars>>
    /\ UNCHANGED <<past, raceVars, plVars>>

\* append_file.go:199-202  bucket, err := client.Bucket(bucketName)
AfBucket ==
    /\ cmd = "appendfromfile" /\ pc = "bucket"
    /\ \E ok \in BOOLEAN :
         /\ calls' = Call("bucket", ok, 0, FALSE)
         /\ IF ok THEN pc' = "exist" /\ UNCHANGED <<err, raised>>
            ELSE Return("bucket error") /\ raised' = Raise("bucket error", 0)
    /\ UNCHANGED <<cmd, args, options, lcbVars, afVars>>
    /\ UNCHANGED <<past, raceVars, plVars>>

\* faulty variants of MetaOnExisting: the check left out, the check inverted
MetaOnExistingUnchecked(e, m) == FALSE
MetaOnExistingInverted(e, m) == e /\ m = <<>>

\* append_file.go:209  if isExist && afc.afOption.ossMeta != ""
MetaOnExisting(e, m) == e /\ m # <<>>

\* faulty variant of ExistFailed: the error of IsObjectExist is not looked at
ExistFailedIgnored(ok) == FALSE

\* append_file.go:205  if err != nil
ExistFailed(ok) == ~ok

\* faulty variant of ReadsLength: the length of the object is never read
ReadsLengthNever(e) == FALSE

\* append_file.go:214  if isExist
ReadsLength(e) == e

\* append_file.go:210
MetaError == "setting meta on existing append object is not supported"

\* append_file.go:204-214  IsObjectExist, the check of --meta, position := 0
AfIsObjectExist ==
    /\ cmd = "appendfromfile" /\ pc = "exist"
    /\ \E ok \in BOOLEAN :
         /\ calls' = Call("exists", ok, 0, FALSE)
         /\ isExist' = (ok /\ remote.exists)
         /\ IF ExistFailed(ok)
            THEN /\ Return("exists error")
                 /\ raised' = Raise("exists error", 0)
                 /\ position' = position
            ELSE IF MetaOnExisting(isExist', afOption.ossMeta)
            THEN /\ Return(MetaError)
                 /\ raised' = Raise(MetaError, 0)
                 /\ position' = position
            ELSE /\ position' = 0
                 /\ pc' = IF ReadsLength(isExist') THEN "getmeta" ELSE "open"
                 /\ err' = err
                 /\ raised' = IF ok THEN raised ELSE Raise("exists error", 0)
    /\ UNCHANGED <<cmd, args, options, lcbVars,
                   remote, remote0, file, afOption, fileOpen, runs>>
    /\ UNCHANGED <<past, raceVars, plVars>>

\* append_file.go:216-224  GetObjectMeta and the parse of Content-Length
AfGetObjectMeta ==
    /\ cmd = "appendfromfile" /\ pc = "getmeta"
    /\ \E ans \in {"error", "props", "no Content-Length"} :
         IF ans = "error"
            THEN /\ calls' = Call("getmeta", FALSE, 0, FALSE)
                 /\ Return("getmeta error")
                 /\ raised' = Raise("getmeta error", 0)
                 /\ position' = position
            ELSE LET header == IF ans = "props" THEN FormatInt(remote.len) ELSE <<>>
                     p == ParseInt(header)
                 IN  /\ calls' = Call("getmeta", TRUE, p.val, FALSE)
                     /\ IF p.err # "nil"
                        THEN /\ Return(p.err)
                             /\ raised' = Raise(p.err, 0)
                             /\ position' = p.val
                        ELSE /\ position' = p.val
                             /\ pc' = "open"
                             /\ UNCHANGED <<err, raised>>
    /\ UNCHANGED <<cmd, args, options, lcbVars,
                   remote, remote0, file, afOption, isExist, fileOpen, runs>>
    /\ UNCHANGED <<past, raceVars, plVars>>

\* append_file.go:233-237  os.OpenFile; defer file.Close()
AfOpen ==
    /\ cmd = "appendfromfile" /\ pc = "open"
    /\ \E ok \in BOOLEAN :
         /\ calls' = Call("open", ok, 0, FALSE)
         /\ fileOpen' = ok
         /\ IF ok THEN pc' = "headers" /\ UNCHANGED <<err, raised>>
            ELSE Return("open error") /\ raised' = Raise("open error", 0)
    /\ UNCHANGED <<cmd, args, options, lcbVars,
                   remote, remote0, file, afOption, isExist, position, runs>>
    /\ UNCHANGED <<past, raceVars, plVars>>

\* faulty variant of AfterReturn: the handle outlives the call
AfterReturnLeaks(open) == open

\* append_file.go:237  defer file.Close(): no handle is open after a return
AfterReturn(open) == FALSE

\* append_file.go:239-253  the options of the append request; a return closes the file
AfBuildOptions ==
    /\ cmd = "appendfromfile" /\ pc = "headers"
    /\ LET metas == parseHeaders(afOption.ossMeta)
           e == IF afOption.ossMeta = <<>> THEN "nil"
                ELSE IF metas.err # "nil" THEN metas.err
                ELSE getOSSOptions(metas)
       IN  IF e # "nil"
           THEN Return(e) /\ raised' = Raise(e, 0) /\ fileOpen' = AfterReturn(fileOpen)
           ELSE pc' = "append" /\ UNCHANGED <<err, raised, fileOpen>>
    /\ UNCHANGED <<cmd, args, options, calls, lcbVars,
                   remote, remote0, file, afOption, isExist, position, runs>>
    /\ UNCHANGED <<past, raceVars, plVars>>

\* faulty variant of Streamed: the bytes the object already holds are skipped
StreamedRest == file.size - Min(file.size, remote.len)

\* append_file.go:233, 256  the file is opened anew and read from byte 0 to its end
Streamed == file.size

\* the service takes an append only at the end of the object
Appendable(pos) == pos = remote.len

\* faulty variant of SentPosition: the length is read again for the request
SentPositionFresh == remote.len

\* append_file.go:227, 256  the position read by RunCommand is the one sent
SentPosition == position

\* append_file.go:255-265, 227-229  bucket.AppendObject(objectName, file, position, options...)
AfAppendObject ==
    /\ cmd = "appendfromfile" /\ pc = "append"
    /\ \E up \in BOOLEAN :
         LET withMeta == afOption.ossMeta # <<>>
             ok == up /\ Appendable(SentPosition)
         IN  /\ calls' = Call("append", ok, SentPosition, withMeta)
             /\ IF ok
                THEN /\ remote' = [exists |-> TRUE,
                                   len |-> remote.len + Streamed,
                                   meta |-> IF remote.exists THEN remote.meta ELSE withMeta]
                     /\ Return("nil")
                     /\ raised' = raised
                ELSE /\ Return("append error")
                     /\ raised' = Raise("append error", 0)
                     /\ remote' = remote
    /\ fileOpen' = AfterReturn(fileOpen)
    /\ UNCHANGED <<cmd, args, options, lcbVars,
                   remote0, file, afOption, isExist, position, runs>>
    /\ UNCHANGED <<past, raceVars, plVars>>

\* the command is run again with the same arguments and the same local file
AfRerun ==
    /\ cmd = "appendfromfile" /\ pc = "done"
    /\ runs < MaxRuns
    /\ pc' = "start"
    /\ err' = "nil"
    /\ raised' = <<>>
    /\ calls' = <<>>
    /\ afOption' = NoOption
    /\ isExist' = FALSE
    /\ position' = 0
    /\ runs' = runs + 1
    /\ remote0' = remote
    /\ UNCHANGED <<cmd, args, options, lcbVars, remote, file, fileOpen>>
    /\ past' = Append(past, [err |-> err, len |-> remote0.len])
    /\ interfered' = FALSE
    /\ UNCHANGED <<writes, plVars>>

\* append_file.go:159-266  one invocation
AfRun ==
    \/ AfParseArgs \/ AfStat \/ AfClient \/ AfBucket \/ AfIsObjectExist
    \/ AfGetObjectMeta \/ AfOpen \/ AfBuildOptions \/ AfAppendObject

AfNext == AfRun \/ AfRerun

-----------------------------------------------------------------------------
Init == LcbInit \/ AfInit

Next == LcbNext \/ AfNext

Spec == Init /\ [][Next]_vars

-----------------------------------------------------------------------------
(* AppendProgressListener: the events of one AppendObject call *)

\* append_file.go:94  milliseconds between two status lines
Throttle == 1000

\* oss.ProgressEventType
EventTypes == {"TransferStartedEvent", "TransferDataEvent",
               "TransferCompletedEvent", "TransferFailedEvent"}

\* the milliseconds that pass between two events
Ticks == {0, Throttle, Throttle + 1}

\* event.ConsumedBytes: the bytes read so far, of a file of MaxAppendObjectSize at most
ConsumedBytes ==
    LET sofar == IF events = <<>> THEN 0 ELSE events[Len(events)].ConsumedBytes
    IN  { b \in {sofar, sofar + 1} : b <= MaxAppendObjectSize }

\* append_file.go:86
Handled(type) == type \in {"TransferDataEvent", "TransferCompletedEvent"}

\* faulty variant of Prints: a line is printed at the threshold already
PrintsAtThreshold(cost, type) == cost >= Throttle \/ type = "TransferCompletedEvent"

\* append_file.go:94
Prints(cost, type) == cost > Throttle \/ type = "TransferCompletedEvent"

\* append_file.go:252  a new listener for every AppendObject call
ProgressInit ==
    /\ cmd = "progress"
    /\ args = <<>>
    /\ options = [x \in {} |-> 0]
    /\ pages = <<0>>
    /\ remote = NoObject
    /\ file = [kind |-> "missing", size |-> 0]
    /\ Fresh

\* append_file.go:85-105
ProgressChanged ==
    /\ cmd = "progress"
    /\ Len(events) < MaxEvents
    /\ \E type \in EventTypes, bytes \in ConsumedBytes, d \in Ticks :
         LET now == clock + d
             event == [EventType |-> type, ConsumedBytes |-> bytes, ms |-> now]
             cost == now - lastMs
             sample == /\ lastSize' = currSize
                       /\ currSize' = bytes
                       /\ lastMs' = now
         IN  /\ clock' = now
             /\ events' = Append(events, event)
             /\ IF ~Handled(type)
                THEN UNCHANGED <<lastMs, lastSize, currSize, status>>
                ELSE IF lastMs = 0
                THEN sample /\ status' = status
                ELSE IF Prints(cost, type)
                THEN sample /\ status' = Append(status, event)
                ELSE UNCHANGED <<lastMs, lastSize, currSize, status>>
    /\ UNCHANGED <<cmd, pc, args, options, err, raised, calls, lcbVars, afVars, past, raceVars>>

SpecProgress == ProgressInit /\ [][ProgressChanged]_vars

-----------------------------------------------------------------------------
(* one invocation of appendfromfile next to another writer of the same object *)

\* append_file.go:213-227  the steps between the read of the position and the return
PositionRead == pc \in {"open", "headers", "append"}

\* another client creates the object, with or without content, or appends to it
Writer ==
    /\ cmd = "appendfromfile"
    /\ writes < MaxWrites
    /\ \E d \in 0..MaxWriteLen :
         /\ remote.exists => d > 0
         /\ remote' = [exists |-> TRUE, len |-> remote.len + d, meta |-> remote.meta]
    /\ writes' = writes + 1
    /\ interfered' = (interfered \/ PositionRead)
    /\ UNCHANGED <<cmd, pc, args, options, err, raised, calls, lcbVars,
                   remote0, file, afOption, isExist, position, fileOpen, runs,
                   past, plVars>>

RaceNext == AfRun \/ Writer

SpecRace == AfInit /\ [][RaceNext]_vars

-----------------------------------------------------------------------------
(* Properties *)

Rows == Len(SelectSeq(out, LAMBDA l : l = "row"))
Listed == cmd = "lcb" /\ pc = "done" /\ err = "nil"

\* C1: a listing that ends without error has printed min(N, T) rows for a
\* limit N >= 0 and T rows for a limit N < 0, T the items of all the pages.
C1_RowCount ==
    Listed =>
        /\ Rows = num
        /\ Rows = IF limitedNum >= 0 THEN Min(limitedNum, Sum(pages)) ELSE Sum(pages)

\* a limit reached inside the second page, after an empty first page
C1_Witness ==
    /\ Listed
    /\ Len(pages) = 2 /\ pages[1] = 0 /\ pages[2] = 2
    /\ limitedNum = 1 /\ Rows = 1

\* C7: no page request follows a successful page whose truncation flag is
\* false; after such a page the command prints it and returns.
C7_NoRequestAfterLastPage ==
    cmd = "lcb" =>
        \A k \in 1..Len(reqs) :
            (reqs[k].ok /\ ~reqs[k].result.IsTruncated) =>
                (k = Len(reqs) /\ pc \in {"page", "done"})

\* a first page that is not truncated and holds fewer items than the limit
C7_Witness ==
    /\ Listed
    /\ Len(reqs) = 1 /\ reqs[1].ok /\ ~reqs[1].result.IsTruncated
    /\ reqs[1].result.CloudBoxes = 2 /\ limitedNum = 3

MarkerGiven == GetString(OptionMarker, options).val
ClientBuilt == \E k \in 1..Len(calls) : calls[k].op = "client"

\* C8: with a --marker that cannot be URL-decoded lcb builds no client and
\* issues no list request, and it returns an error.
C8_MalformedMarker ==
    (cmd = "lcb" /\ getRawMarker(MarkerGiven).err # "nil") =>
        /\ reqs = <<>>
        /\ ~ClientBuilt
        /\ pc \notin {"client", "loop", "list", "page"}
        /\ pc = "done" => err # "nil"

\* the command has returned the marker error
C8_Witness ==
    /\ cmd = "lcb" /\ pc = "done" /\ err = "invalid marker"
    /\ MarkerGiven = <<"%", "z">>
    /\ reqs = <<>> /\ ~ClientBuilt

\* a step of ossListCloudBoxesRetry that issues a request, judged against a
\* largest attempt count M: no attempt beyond the M-th, a success is returned
\* to the listing loop, the M-th failure is returned as the error, an earlier
\* failure is followed by the next attempt
AttemptRespects(M) ==
    (cmd = "lcb" /\ Len(reqs') = Len(reqs) + 1) =>
        LET r == reqs'[Len(reqs')]
        IN  /\ r.i = i /\ r.i <= M
            /\ r.ok => (pc' = "page" /\ err' = "nil" /\ lcr' = r.result)
            /\ (~r.ok /\ r.i = M) => (pc' = "done" /\ err' = "list error")
            /\ (~r.ok /\ r.i < M) => (pc' = "list" /\ i' = i + 1 /\ err' = "nil")

\* C6: for a maximum attempt count M >= 1 a page that fails M-1 times and
\* then succeeds is returned, one that fails M times returns the error of the
\* M-th attempt, and no (M+1)-th request is issued for the page.
C6_RetryCount == [][retryTimes.val >= 1 => AttemptRespects(retryTimes.val)]_vars

\* --retry-times 2: the first attempt failed, the second was returned
C6_Witness ==
    /\ cmd = "lcb" /\ pc = "page" /\ retryTimes.val = 2
    /\ Len(reqs) = 2 /\ ~reqs[1].ok /\ reqs[2].ok
    /\ reqs[1].i = 1 /\ reqs[2].i = 2

-----------------------------------------------------------------------------
Af == cmd = "appendfromfile"
Requested(op) == { k \in 1..Len(calls) : calls[k].op = op }
Answered(op) == { k \in Requested(op) : calls[k].ok }
ServiceOps == {"exists", "getmeta", "append"}
MetaGiven == GetString(OptionMeta, options).val

\* C2: an append request carries position 0 after an exists-check that
\* reported the object absent, and the Content-Length read after one that
\* reported it present; a successful append leaves the object with that
\* position plus the size of the local file as its length.
C2_AppendPosition ==
    Af =>
        /\ \A k \in Requested("append") :
              /\ \E j \in Answered("exists") : j < k
              /\ ~isExist => calls[k].pos = 0
              /\ isExist => \E j \in Answered("getmeta") :
                                j < k /\ calls[k].pos = calls[j].pos
                                      /\ calls[j].pos = remote0.len
              /\ calls[k].ok => /\ pc = "done" /\ err = "nil"
                                /\ remote.exists
                                /\ remote.len = calls[k].pos + file.size
        /\ (pc = "done" /\ err = "nil") =>
              /\ Answered("append") # {}
              /\ remote.len = (IF isExist THEN remote0.len ELSE 0) + file.size

\* a file of size 2 appended to an object of length 1
C2_Witness ==
    /\ Af /\ pc = "done" /\ err = "nil"
    /\ isExist /\ remote0.len = 1 /\ file.size = 2 /\ remote.len = 3
    /\ \E k \in Answered("append") : calls[k].pos = 1

\* C3 as stated: with --meta on an object that exists the command fails the
\* validation before any network call: no exists-check, get-metadata or
\* append request was issued when it returns the validation error.
C3_AsStated ==
    (Af /\ MetaGiven # <<>> /\ remote0.exists /\ pc = "done" /\ err = MetaError) =>
        \A k \in 1..Len(calls) : calls[k].op \notin ServiceOps

\* C3, amended: with --meta on an object that exists the exists-check is the
\* only service request of the invocation; once it has reported the object
\* present the command has returned the validation error, and no
\* get-metadata or append request is issued.
C3_MetaOnExisting ==
    (Af /\ MetaGiven # <<>> /\ remote0.exists) =>
        /\ Requested("getmeta") = {} /\ Requested("append") = {}
        /\ Cardinality(Requested("exists")) <= 1
        /\ Answered("exists") # {} =>
              /\ pc = "done" /\ err = MetaError
              /\ calls[Len(calls)].op = "exists"

\* the validation error, returned after the exists-check
C3_Witness ==
    /\ Af /\ MetaGiven # <<>> /\ remote0.exists
    /\ pc = "done" /\ err = MetaError
    /\ Cardinality(Requested("exists")) = 1

\* C4: when the exists-check has reported the object present and --meta is
\* given, the command has returned an error, no append request was issued
\* and the object is as it was; an append request carries metadata only
\* after an exists-check that reported the object absent; an object that
\* existed keeps its metadata.
C4_NoMetaOnExisting ==
    Af =>
        /\ (Answered("exists") # {} /\ isExist /\ afOption.ossMeta # <<>>) =>
              /\ pc = "done" /\ err # "nil"
              /\ Requested("append") = {}
              /\ remote = remote0
        /\ \A k \in Requested("append") :
              calls[k].meta => (~isExist /\ \E j \in Answered("exists") : j < k)
        /\ remote0.exists => remote.meta = remote0.meta

\* the second invocation is refused on the object the first one created
\* with its metadata
C4_Witness ==
    /\ Af /\ runs = 2 /\ pc = "done" /\ err = MetaError
    /\ remote.meta /\ remote = remote0 /\ Requested("append") = {}

LocalErrors == {"object key is empty", "stat error", "is dir", "is bigger than"}
UrlGiven == GetCloudUrl(args[2], GetString(OptionEncodingType, options).val)
LocalFailure ==
    /\ UrlGiven.err = "nil"
    /\ \/ UrlGiven.object = <<>>
       \/ file.kind \in {"missing", "dir"}
       \/ file.size > MaxAppendObjectSize

\* C5: with an empty object key, a local path that cannot be stat'ed or is a
\* directory, or a file larger than MaxAppendObjectSize, appendfromfile
\* returns an error and neither opens the file, builds a client nor issues a
\* service request; a file of exactly MaxAppendObjectSize passes the check.
C5_LocalValidation ==
    Af =>
        /\ LocalFailure =>
              /\ \A k \in 1..Len(calls) : calls[k].op = "stat"
              /\ ~fileOpen
              /\ pc \in {"start", "stat", "done"}
              /\ pc = "done" => err \in LocalErrors
        /\ (pc = "done" /\ ~LocalFailure) => err \notin LocalErrors
        /\ (pc = "done" /\ UrlGiven.err = "nil" /\ ~LocalFailure) =>
              Requested("client") # {}

\* a file one byte over the limit is refused after the stat
C5_Witness ==
    /\ Af /\ pc = "done" /\ err = "is bigger than"
    /\ file.size = MaxAppendObjectSize + 1
    /\ Len(calls) = 1

ErrorOf(op) ==
    CASE op = "stat" -> "stat error" [] op = "client" -> "client error"
      [] op = "bucket" -> "bucket error" [] op = "exists" -> "exists error"
      [] op = "getmeta" -> "getmeta error" [] op = "open" -> "open error"
      [] op = "append" -> "append error"

\* C9: exists-check, get-metadata and append are each requested at most
\* once in an invocation; an operation that failed is the last one
\* requested and its error is the one returned, and so is a Content-Length
\* that does not parse.
C9_NoRetry ==
    Af =>
        /\ \A op \in ServiceOps : Cardinality(Requested(op)) <= 1
        /\ \A k \in 1..Len(calls) :
              ~calls[k].ok =>
                  /\ k = Len(calls)
                  /\ pc = "done" /\ err = ErrorOf(calls[k].op)
                  /\ raised[Len(raised)].err = err
        /\ \A k \in 1..Len(raised) :
              raised[k].err = "invalid syntax" =>
                  /\ pc = "done" /\ err = "invalid syntax"
                  /\ calls[Len(calls)].op = "getmeta"

\* get-metadata failed after the exists-check: nothing follows it
C9_Witness ==
    /\ Af /\ pc = "done" /\ err = "getmeta error"
    /\ Answered("exists") # {} /\ Requested("getmeta") # {}
    /\ ~calls[Len(calls)].ok /\ Requested("append") = {}

\* C10 as stated: every error a step produced makes RunCommand return an error.
C10_AsStated == (pc = "done" /\ raised # <<>>) => err # "nil"

\* an error that the code drops: an option lookup, or a list attempt that is
\* followed by another attempt for the page
Dropped(e) ==
    \/ e.err = "option not found"
    \/ e.err = "list error" /\ e.i < retryTimes.val

\* C10, amended: every error of URL parsing, marker decoding, the local file
\* checks, client construction, the append-side service calls and the last
\* list attempt for a page ends the command with a non-nil error; the
\* errors of option lookups and of list attempts that are retried are dropped.
C10_ErrorsReturned ==
    \A k \in 1..Len(raised) :
        ~Dropped(raised[k]) => (k = Len(raised) /\ pc = "done" /\ err # "nil")

\* lcb returns the error of the second of two attempts, --retry-times 2
C10_Witness ==
    /\ cmd = "lcb" /\ pc = "done" /\ err = "list error"
    /\ retryTimes.val = 2
    /\ \E k \in 1..Len(raised) : raised[k].err = "list error" /\ raised[k].i = 1
    /\ raised[Len(raised)] = [err |-> "list error", i |-> 2]

-----------------------------------------------------------------------------
Lcb == cmd = "lcb"
PrefixGiven == IF Len(args) > 0 THEN CloudURLFromString(args[1]).bucket ELSE ""

\* the last successful request before request k, 0 when there is none
LastPageBefore(k) ==
    LET oks == { j \in 1..(k - 1) : reqs[j].ok }
    IN  IF oks = {} THEN 0 ELSE CHOOSE j \in oks : \A l \in oks : l <= j

\* C11: until a page has been returned every request carries the bucket of
\* the argument as prefix and the --marker as given; every later request
\* carries the Prefix and NextMarker of the last page returned before it.
C11_CursorCarried ==
    Lcb =>
        \A k \in 1..Len(reqs) :
            LET j == LastPageBefore(k)
            IN  IF j = 0
                THEN reqs[k].prefix = PrefixGiven /\ reqs[k].marker = MarkerGiven
                ELSE /\ reqs[k].prefix = reqs[j].result.Prefix
                     /\ reqs[k].marker = reqs[j].result.NextMarker

\* the second page is asked for with the NextMarker of the first, the first
\* with the bucket and the marker of the command line
C11_Witness ==
    /\ Lcb /\ Len(reqs) = 2 /\ reqs[1].ok /\ reqs[2].ok
    /\ reqs[1].prefix = "b1" /\ reqs[1].marker = <<"%", "4", "b">>
    /\ reqs[2].prefix = "b1" /\ reqs[2].marker = NextMarkerOf(1)

\* C12: the attempts for one page carry the same prefix and marker; an
\* attempt prints nothing and leaves the row counter alone, and a failed
\* attempt leaves the cursor and the page in hand alone.
C12_RetryKeepsCursor ==
    [][(Lcb /\ Len(reqs') = Len(reqs) + 1) =>
         LET r == reqs'[Len(reqs')]
         IN  /\ r.i > 1 => /\ reqs # <<>> /\ ~reqs[Len(reqs)].ok
                           /\ r.prefix = reqs[Len(reqs)].prefix
                           /\ r.marker = reqs[Len(reqs)].marker
             /\ r.prefix = pre /\ r.marker = marker
             /\ pre' = pre /\ marker' = marker
             /\ num' = num /\ out' = out
             /\ ~r.ok => lcr' = lcr]_vars

\* the second page is asked for twice, with the same marker, after a page of rows
C12_Witness ==
    /\ Lcb /\ Len(reqs) = 3 /\ reqs[1].ok /\ ~reqs[2].ok /\ reqs[3].ok
    /\ reqs[2].marker = NextMarkerOf(1) /\ reqs[3].marker = NextMarkerOf(1)
    /\ num = 2 /\ pc = "page"

\* the attempts already made for the page being requested
RECURSIVE FailedTail(_)
FailedTail(s) ==
    IF s = <<>> \/ s[Len(s)].ok THEN 0 ELSE 1 + FailedTail(SubSeq(s, 1, Len(s) - 1))

\* C13: a page takes at least one and at most max(1, retryTimes) requests,
\* one when retryTimes <= 0; a request beyond the first follows a failed
\* attempt for the same page, and a success ends the attempts for the page.
C13_AttemptBounds ==
    Lcb =>
        /\ \A k \in 1..Len(reqs) :
              /\ 1 <= reqs[k].i /\ reqs[k].i <= Max(1, retryTimes.val)
              /\ reqs[k].i > 1 => (~reqs[k - 1].ok /\ reqs[k - 1].i = reqs[k].i - 1
                                   /\ reqs[k - 1].page = reqs[k].page)
              /\ (k > 1 /\ reqs[k - 1].ok) => reqs[k].i = 1
              /\ (k > 1 /\ reqs[k].i = 1) => reqs[k - 1].ok
        /\ pc = "list" => (i = FailedTail(reqs) + 1 /\ i <= Max(1, retryTimes.val))
        /\ pc = "page" => (reqs # <<>> /\ reqs[Len(reqs)].ok)
        /\ (pc = "done" /\ err = "list error") =>
              FailedTail(reqs) = Max(1, retryTimes.val)

\* --retry-times 0: one request, and its error is returned
C13_Witness ==
    /\ Lcb /\ OptionRetryTimes \in DOMAIN options /\ retryTimes.val = 0
    /\ pc = "done" /\ err = "list error" /\ Len(reqs) = 1

\* C14: with a limit N >= 0 no request is issued once N rows are printed and
\* never more than N rows are printed; with N = 0 no request is issued.
C14_StopsAtLimit ==
    [][Lcb =>
         /\ (limitedNum >= 0 /\ Len(reqs') > Len(reqs)) => Rows < limitedNum
         /\ limitedNum' >= 0 => Rows' <= limitedNum']_vars

\* the limit is reached at the end of a truncated page: no second request
C14_Witness ==
    /\ Listed /\ limitedNum = 2 /\ Rows = 2
    /\ Len(reqs) = 1 /\ reqs[1].result.IsTruncated

Headers == Len(SelectSeq(out, LAMBDA l : l = "header"))

\* C15: the header is printed at most once, before the first row, and
\* exactly when a row is printed.
C15_HeaderOnce ==
    Lcb =>
        /\ Headers <= 1
        /\ (Headers = 1) <=> (Rows >= 1)
        /\ out # <<>> => out[1] = "header"

\* an empty page printed nothing, the next one the header and its rows
C15_Witness ==
    /\ Listed /\ Len(reqs) = 2 /\ reqs[1].result.CloudBoxes = 0
    /\ out = <<"header", "row", "row">>

-----------------------------------------------------------------------------
\* C16: the file is open exactly between a successful open and the return
\* of AppendFromFile; after the return, for a header error, an option
\* error, an append error or success alike, and after a failed open, no
\* handle is open.
C16_FileClosed ==
    Af =>
        /\ fileOpen <=> pc \in {"headers", "append"}
        /\ pc = "done" => ~fileOpen
        /\ fileOpen => (Requested("open") # {} /\ calls[Len(calls)].op = "open"
                        /\ calls[Len(calls)].ok)
        /\ (calls # <<>> /\ calls[Len(calls)].op = "open" /\ ~calls[Len(calls)].ok)
              => ~fileOpen

\* the options could not be built from the header: the file is closed
C16_Witness ==
    /\ Af /\ pc = "done" /\ err = "unsupported header"
    /\ calls # <<>> /\ calls[Len(calls)].op = "open" /\ calls[Len(calls)].ok
    /\ ~fileOpen

-----------------------------------------------------------------------------
\* the length of the object before the first invocation
FirstLen == IF past = <<>> THEN remote0.len ELSE past[1].len
\* the invocations that returned nil, the present one included
Succeeded ==
    Len(SelectSeq(past, LAMBDA r : r.err = "nil"))
        + (IF pc = "done" /\ err = "nil" THEN 1 ELSE 0)

\* C19: every successful invocation appends the whole local file at the
\* length the object has when the invocation starts: after k successful
\* invocations on an object of length L (0 when absent) with a local file
\* of size S the object has length L + k*S.
C19_NotIdempotent ==
    Af =>
        /\ remote.len = FirstLen + Succeeded * file.size
        /\ \A k \in Answered("append") : calls[k].pos = remote0.len
        /\ remote0.exists \/ remote0.len = 0

\* two invocations in a row, each appended the two bytes of the file
C19_Witness ==
    /\ Af /\ Len(past) = 1 /\ past[1].err = "nil" /\ past[1].len = 1
    /\ pc = "done" /\ err = "nil" /\ file.size = 2
    /\ remote.len = 5

-----------------------------------------------------------------------------
Progress == cmd = "progress"
Delivered == Len(events') = Len(events) + 1
Printed == Len(status') = Len(status) + 1
DataLines == { k \in 1..Len(status) : status[k].EventType = "TransferDataEvent" }

\* C17: with a clock that never goes back, a data event prints a status
\* line only when more than 1000 ms have passed since the last recorded
\* sample, so it prints more than 1000 ms after every earlier line of a
\* data event; an event that prints nothing and is not the first event
\* handled leaves lastMs, lastSize and currSize as they were.
C17_Throttled ==
    [][(Progress /\ Delivered) =>
         LET e == events'[Len(events')]
             first == Handled(e.EventType) /\ lastMs = 0
         IN  /\ Printed \/ status' = status
             /\ (Printed /\ e.EventType = "TransferDataEvent") =>
                   /\ lastMs # 0 /\ e.ms - lastMs > Throttle
                   /\ \A k \in DataLines : e.ms - status[k].ms > Throttle
             /\ (~Printed /\ ~first) => UNCHANGED <<lastMs, lastSize, currSize>>]_vars

\* two lines of data events, 1001 ms apart
C17_Witness ==
    /\ Progress /\ Len(status) = 2 /\ DataLines = {1, 2}
    /\ status[2].ms - status[1].ms = Throttle + 1

\* C18, as stated: every transfer-completed event prints a status line,
\* whatever the time passed and the events before it.
C18_AsStated ==
    [][(Progress /\ Delivered /\ events'[Len(events')].EventType = "TransferCompletedEvent")
          => Printed]_vars

-----------------------------------------------------------------------------
AppendStep == Len(calls') = Len(calls) + 1 /\ calls'[Len(calls')].op = "append"
\* the position RunCommand read: 0 or the Content-Length
ReadPosition ==
    IF isExist THEN calls[CHOOSE k \in Requested("getmeta") : TRUE].pos ELSE 0
Rejected ==
    /\ ~calls'[Len(calls')].ok
    /\ remote' = remote
    /\ pc' = "done" /\ err' = "append error"
    /\ Cardinality({ k \in 1..Len(calls') : calls'[k].op = "append" }) = 1

\* C20, as stated: the append request carries the position read earlier,
\* and when another writer created or extended the object after that read
\* the append is rejected, its error returned without a retry, and the
\* object left as the writer left it.
C20_AsStated ==
    [][(Af /\ AppendStep) =>
         /\ calls'[Len(calls')].pos = ReadPosition
         /\ interfered => Rejected]_vars

\* C20: the append request carries the position read earlier; when the
\* object's length at the request differs from it the append is rejected,
\* its error returned without a retry and the object left alone; an append
\* that is accepted starts at the end of the object, also after another
\* writer created the object empty.
C20_RejectedOffEnd ==
    [][(Af /\ AppendStep) =>
         /\ calls'[Len(calls')].pos = ReadPosition
         /\ remote.len # ReadPosition => Rejected
         /\ calls'[Len(calls')].ok =>
               /\ ReadPosition = remote.len
               /\ remote'.len = remote.len + file.size
         /\ ~calls'[Len(calls')].ok => remote' = remote]_vars

\* the object grew after its length was read: the append failed
C20_Witness ==
    /\ Af /\ interfered /\ writes = 1 /\ isExist
    /\ pc = "done" /\ err = "append error"
    /\ calls[Len(calls)].op = "append" /\ calls[Len(calls)].pos = 1
    /\ remote.len = 2
====
